---- MODULE Spec2Model ----
(***************************************************************************)
(* Subtitle timing and chunking of meicho-minutes:                         *)
(*   src/src/ass_subtitle_generator.py   (ASSSubtitleGenerator)            *)
(*   src/src/subtitle_timing_generator.py (SubtitleTimingGenerator)        *)
(*                                                                         *)
(* Times are Python floats in the source.  They are modelled as exact      *)
(* rationals [n, d] (d > 0, lowest terms), so that the proportional        *)
(* allocations (divisions by character counts) are computed as the code    *)
(* computes them, up to float rounding.                                    *)
(* A text is a sequence of characters; a character is written as a short   *)
(* ASCII name ("ha" for the particle, "touten" for the comma, ...).        *)
(***************************************************************************)
EXTENDS Integers, Sequences, FiniteSets, TLC

VARIABLES call, pc, accent_phrases, original_text, mora_timings,
          i, current_chunk_moras, current_text, chunks, last_split,
          text, total_duration, result, result64, previous,
          seconds, time_str, parsed,
          subtitle_chunks, style_name, ass_content, file_segments,
          script, audio_duration, subtitle_segments,
          long_text, max_chars_per_line, formatted

\* the arguments, locals and return values of the chunking and timing calls
chunkerVars == <<accent_phrases, original_text, mora_timings,
                 i, current_chunk_moras, current_text, chunks, last_split,
                 text, total_duration, result, result64, previous>>

\* the arguments and return values of the serializer calls
timeVars == <<seconds, time_str, parsed>>
renderVars == <<subtitle_chunks, style_name, ass_content, file_segments>>
serializerVars == <<timeVars, renderVars>>

\* the arguments and return values of the SubtitleGenerator calls
timingVars == <<script, audio_duration, subtitle_segments>>
lineBreakVars == <<long_text, max_chars_per_line, formatted>>
generatorVars == <<timingVars, lineBreakVars>>

vars == <<call, pc, chunkerVars, serializerVars, generatorVars>>

(***************************************************************************)
(* Float arithmetic, as exact rationals.                                   *)
(***************************************************************************)
RECURSIVE GCD(_, _)
GCD(a, b) == IF b = 0 THEN a ELSE GCD(b, a % b)

Abs(x) == IF x < 0 THEN -x ELSE x

R(n, d) == LET g == GCD(Abs(n), d) IN [n |-> n \div g, d |-> d \div g]

RAdd(a, b) == R(a.n * b.d + b.n * a.d, a.d * b.d)
RSub(a, b) == R(a.n * b.d - b.n * a.d, a.d * b.d)
RMul(a, b) == R(a.n * b.n, a.d * b.d)
RDiv(a, b) == IF b.n > 0 THEN R(a.n * b.d, a.d * b.n) ELSE R(-(a.n * b.d), a.d * (-b.n))
RLt(a, b) == a.n * b.d < b.n * a.d
RLe(a, b) == a.n * b.d <= b.n * a.d
RMax(a, b) == IF RLt(a, b) THEN b ELSE a
RMin(a, b) == IF RLt(b, a) THEN b ELSE a
FromInt(k) == [n |-> k, d |-> 1]
Zero == FromInt(0)

\* A field that is absent from a record of the TTS engine, or null.
None == [n |-> 0, d |-> 0]

\* k copies of the character c
Rep(c, k) == [j \in 1..k |-> c]

(***************************************************************************)
(* Float arithmetic, bit for bit.  Where a claim depends on the rounding   *)
(* of a float operation, a float >= 0 is modelled as the binary64 value it *)
(* is: [m, e] stands for m * 2^e, with m a natural number written as its   *)
(* bits, most significant first, without leading or trailing zeros (zero   *)
(* has no bits).  X.. operators are exact, D.. operators round the exact   *)
(* result to the 53 bits of a binary64 significand, ties to even, as the   *)
(* hardware does.  The values of the model stay far from the overflow and  *)
(* subnormal ranges.                                                       *)
(***************************************************************************)
Precision == 53
GuardBits == 64

Zeros(k) == [j \in 1..k |-> 0]

StripLeading(b) ==
    IF \A j \in 1..Len(b) : b[j] = 0 THEN <<>>
    ELSE SubSeq(b, CHOOSE j \in 1..Len(b) : b[j] = 1 /\ \A h \in 1..(j - 1) : b[h] = 0,
                Len(b))

RECURSIVE Bits(_)
Bits(n) == IF n = 0 THEN <<>> ELSE Append(Bits(n \div 2), n % 2)

RECURSIVE BitsToInt(_)
BitsToInt(b) ==
    IF b = <<>> THEN 0 ELSE 2 * BitsToInt(SubSeq(b, 1, Len(b) - 1)) + b[Len(b)]

\* A long natural number is handled LimbBits bits at a time: its limbs,
\* least significant first.
LimbBits == 15
Base == 2 ^ LimbBits

Limbs(b) ==
    [j \in 1..((Len(b) + LimbBits - 1) \div LimbBits) |->
        BitsToInt(SubSeq(b, IF Len(b) - LimbBits * j + 1 < 1 THEN 1
                            ELSE Len(b) - LimbBits * j + 1,
                         Len(b) - LimbBits * (j - 1)))]

FromLimbs(ls) ==
    StripLeading([q \in 1..(LimbBits * Len(ls)) |->
        LET p == LimbBits * Len(ls) - q
        IN (ls[(p \div LimbBits) + 1] \div (2 ^ (p % LimbBits))) % 2])

LimbAt(ls, j) == IF j <= Len(ls) THEN ls[j] ELSE 0

RECURSIVE AddLimbs(_, _, _, _, _)
AddLimbs(x, y, j, carry, acc) ==
    IF j > Len(x) /\ j > Len(y) THEN Append(acc, carry)
    ELSE LET v == LimbAt(x, j) + LimbAt(y, j) + carry
         IN AddLimbs(x, y, j + 1, v \div Base, Append(acc, v % Base))

AddBits(a, b) == FromLimbs(AddLimbs(Limbs(a), Limbs(b), 1, 0, <<>>))

\* multiplication by a small integer
RECURSIVE MulLimbs(_, _, _, _, _)
MulLimbs(x, k, j, carry, acc) ==
    IF j > Len(x) THEN Append(acc, carry)
    ELSE LET v == x[j] * k + carry
         IN MulLimbs(x, k, j + 1, v \div Base, Append(acc, v % Base))

MulBits(a, k) == FromLimbs(MulLimbs(Limbs(a), k, 1, 0, <<>>))

\* long division by a small integer, from the most significant limb down:
\* quotient and remainder
RECURSIVE DivLimbs(_, _, _, _, _)
DivLimbs(x, k, j, r, acc) ==
    IF j < 1 THEN [q |-> acc, r |-> r]
    ELSE LET v == r * Base + x[j]
         IN DivLimbs(x, k, j - 1, v % k, <<v \div k>> \o acc)

DivBits(a, k) ==
    LET d == DivLimbs(Limbs(a), k, Len(Limbs(a)), 0, <<>>)
    IN [q |-> FromLimbs(d.q), r |-> d.r]

LessBits(a, b) ==
    \/ Len(a) < Len(b)
    \/ /\ Len(a) = Len(b)
       /\ \E j \in 1..Len(a) :
              /\ a[j] < b[j]
              /\ \A h \in 1..(j - 1) : a[h] = b[h]

DZero == [m |-> <<>>, e |-> 0]

\* no leading and no trailing zero bit
Canon(x) ==
    LET m == StripLeading(x.m)
        last == CHOOSE j \in 1..Len(m) : m[j] = 1 /\ \A h \in (j + 1)..Len(m) : m[h] = 0
    IN IF m = <<>> THEN DZero
       ELSE [m |-> SubSeq(m, 1, last), e |-> x.e + (Len(m) - last)]

\* the bits of x at the scale 2^e0, for e0 <= x.e
Scaled(x, e0) == IF x.m = <<>> THEN <<>> ELSE x.m \o Zeros(x.e - e0)

MinExp(x, y) == IF x.e < y.e THEN x.e ELSE y.e

XFromInt(n) == Canon([m |-> Bits(n), e |-> 0])
XPow2(e) == [m |-> <<1>>, e |-> e]
XAdd(x, y) ==
    Canon([m |-> AddBits(Scaled(x, MinExp(x, y)), Scaled(y, MinExp(x, y))),
           e |-> MinExp(x, y)])
XMul(x, k) == Canon([m |-> MulBits(x.m, k), e |-> x.e])
XLess(x, y) == LessBits(Scaled(x, MinExp(x, y)), Scaled(y, MinExp(x, y)))
XLe(x, y) == ~XLess(y, x)

\* round to nearest, ties to even, at Precision bits
DRound(x) ==
    LET len == Len(x.m)
        q == SubSeq(x.m, 1, Precision)
        up == /\ x.m[Precision + 1] = 1
              /\ \/ q[Precision] = 1
                 \/ \E j \in (Precision + 2)..len : x.m[j] = 1
    IN IF len <= Precision THEN x
       ELSE Canon([m |-> IF up THEN AddBits(q, <<1>>) ELSE q,
                   e |-> x.e + (len - Precision)])

\* float + float, float * int, float / int, int / int; an operation on zero
\* is exact
DAdd(x, y) ==
    IF x.m = <<>> THEN y ELSE IF y.m = <<>> THEN x ELSE DRound(XAdd(x, y))
DMul(x, k) == IF x.m = <<>> THEN DZero ELSE DRound(XMul(x, k))
DDiv(x, k) ==
    LET d == DivBits(Scaled(x, x.e - GuardBits), k)
    IN IF x.m = <<>> THEN DZero
       ELSE DRound(Canon([m |-> Append(d.q, IF d.r # 0 THEN 1 ELSE 0),
                          e |-> x.e - GuardBits - 1]))
DRatio(n, k) == DDiv(XFromInt(n), k)

\* int(x), for x >= 0
DTrunc(x) ==
    IF x.e >= 0 THEN BitsToInt(Scaled(x, 0))
    ELSE IF Len(x.m) <= -x.e THEN 0
    ELSE BitsToInt(SubSeq(x.m, 1, Len(x.m) + x.e))

(***************************************************************************)
(* ASSSubtitleGenerator.__init__                                           *)
(***************************************************************************)
max_chars_per_chunk == 20
max_duration_per_chunk == FromInt(3)
min_chunk_duration == R(1, 2)
connection_particles == {"no", "ni", "wo", "ga", "ha", "de", "to", "ya", "ka"}
pause_punctuation == {"kuten", "exclam", "question", "touten"}

(***************************************************************************)
(* extract_mora_timings                                                    *)
(***************************************************************************)
\* `x or 0.0` after dict.get(key, 0.0): None and 0 become 0.0, every other
\* number (a negative one included) is kept.
OrZero(v) == IF v = None \/ v.n = 0 THEN Zero ELSE v

MoraTiming(t, start, cl, vl) ==
    [text |-> t, start_time |-> start,
     end_time |-> RAdd(RAdd(start, cl), vl),
     consonant_length |-> cl, vowel_length |-> vl]

\* the inner loop over phrase.get('moras', []): acc is <<mora_timings, cumulative_time>>
RECURSIVE ExtractMoras(_, _, _)
ExtractMoras(moras, k, acc) ==
    IF k > Len(moras) THEN acc
    ELSE LET mora == moras[k]
             m == MoraTiming(mora.text, acc[2],
                             OrZero(mora.consonant_length), OrZero(mora.vowel_length))
         IN ExtractMoras(moras, k + 1, <<Append(acc[1], m), m.end_time>>)

\* the pause_mora of a phrase (<<>>: no pause_mora): emitted with an empty
\* text only when one of its lengths is > 0
ExtractPauseAlways(pause_mora, acc) ==
    IF pause_mora = <<>> THEN acc
    ELSE LET m == MoraTiming(<<>>, acc[2], OrZero(pause_mora[1].consonant_length),
                             OrZero(pause_mora[1].vowel_length))
         IN <<Append(acc[1], m), m.end_time>>
ExtractPause(pause_mora, acc) ==
    IF pause_mora = <<>> THEN acc
    ELSE LET cl == OrZero(pause_mora[1].consonant_length)
             vl == OrZero(pause_mora[1].vowel_length)
             m == MoraTiming(<<>>, acc[2], cl, vl)
         IN IF RLt(Zero, cl) \/ RLt(Zero, vl)
            THEN <<Append(acc[1], m), m.end_time>>
            ELSE acc

RECURSIVE ExtractPhrases(_, _, _)
ExtractPhrases(phrases, k, acc) ==
    IF k > Len(phrases) THEN acc
    ELSE ExtractPhrases(phrases, k + 1,
             ExtractPause(phrases[k].pause_mora,
                          ExtractMoras(phrases[k].moras, 1, acc)))

extract_mora_timings(phrases) == ExtractPhrases(phrases, 1, <<(<<>>), Zero>>)[1]

(***************************************************************************)
(* create_subtitle_chunks and its helpers                                  *)
(***************************************************************************)
LastChar(t) == t[Len(t)]

\* line 182: the character-count test
TooManyCharsAtLimit(new_text) == Len(new_text) >= max_chars_per_chunk
TooManyChars(new_text) == Len(new_text) > max_chars_per_chunk

\* line 195: the incoming unit is itself a connective particle
NeverKeepsParticle(new_mora) == FALSE
KeepsParticle(new_mora) ==
    Len(new_mora.text) = 1 /\ new_mora.text[1] \in connection_particles

\* line 201: the particle-boundary trigger needs a chunk of 3 characters
LongEnoughFromTwo(cur_text) == Len(cur_text) >= 2
LongEnoughForBoundary(cur_text) == Len(cur_text) >= 3

\* lines 186-187: the duration test
NeverTooLong(current_moras, new_mora) == FALSE
TooLong(current_moras, new_mora) ==
    RLt(max_duration_per_chunk, RSub(new_mora.end_time, current_moras[1].start_time))

\* _should_split_chunk, with the return statement that decided
SplitReason(cur_text, new_text, current_moras, new_mora) ==
    IF current_moras = <<>> THEN "first"
    ELSE IF TooManyChars(new_text) THEN "chars"
    ELSE IF TooLong(current_moras, new_mora) THEN "duration"
    ELSE IF cur_text # <<>> /\ LastChar(cur_text) \in pause_punctuation THEN "punctuation"
    ELSE IF KeepsParticle(new_mora) THEN "keep_particle"
    ELSE IF cur_text # <<>> /\ LastChar(cur_text) \in connection_particles
            /\ LongEnoughForBoundary(cur_text) THEN "particle_boundary"
    ELSE "none"

SplitReasons == {"chars", "duration", "punctuation", "particle_boundary"}

_should_split_chunk(cur_text, new_text, current_moras, new_mora) ==
    SplitReason(cur_text, new_text, current_moras, new_mora) \in SplitReasons

SubtitleChunk(t, start, end, moras) ==
    [text |-> t, start_time |-> start, end_time |-> end, moras |-> moras]

\* a chunk that ends with its first unit
CreateChunkFromFirst(moras, t) ==
    IF moras = <<>> THEN SubtitleChunk(<<>>, Zero, Zero, <<>>)
    ELSE SubtitleChunk(t, moras[1].start_time, moras[1].end_time, moras)
_create_chunk_from_moras(moras, t) ==
    IF moras = <<>> THEN SubtitleChunk(<<>>, Zero, Zero, <<>>)
    ELSE SubtitleChunk(t, moras[1].start_time, moras[Len(moras)].end_time, moras)

Duration(c) == RSub(c.end_time, c.start_time)

\* the merge test of _optimize_chunks at index k (lines 242-244)
ShouldMergeBelowLimit(cs, k) ==
    /\ RLt(RSub(cs[k].end_time, cs[k].start_time), min_chunk_duration)
    /\ k + 1 <= Len(cs)
    /\ Len(cs[k].text) + Len(cs[k + 1].text) < max_chars_per_chunk
\* the merge test without its duration condition
ShouldMergeAnyDuration(cs, k) ==
    /\ k + 1 <= Len(cs)
    /\ Len(cs[k].text) + Len(cs[k + 1].text) <= max_chars_per_chunk
\* the merge test without its character-count condition
ShouldMergeAnyLength(cs, k) ==
    /\ RLt(Duration(cs[k]), min_chunk_duration)
    /\ k + 1 <= Len(cs)
ShouldMerge(cs, k) ==
    /\ RLt(Duration(cs[k]), min_chunk_duration)
    /\ k + 1 <= Len(cs)
    /\ Len(cs[k].text) + Len(cs[k + 1].text) <= max_chars_per_chunk

MergeKeepsFirstEnd(a, b) ==
    SubtitleChunk(a.text \o b.text, a.start_time, a.end_time, a.moras \o b.moras)
MergeChunks(a, b) ==
    SubtitleChunk(a.text \o b.text, a.start_time, b.end_time, a.moras \o b.moras)

RECURSIVE OptimizeFrom(_, _, _)
OptimizeFrom(cs, k, optimized) ==
    IF k > Len(cs) THEN optimized
    ELSE IF ShouldMerge(cs, k)
         THEN OptimizeFrom(cs, k + 2, Append(optimized, MergeChunks(cs[k], cs[k + 1])))
         ELSE OptimizeFrom(cs, k + 1, Append(optimized, cs[k]))

_optimize_chunks(cs) == IF cs = <<>> THEN cs ELSE OptimizeFrom(cs, 1, <<>>)

(***************************************************************************)
(* str.strip(): whitespace is removed from both ends                       *)
(***************************************************************************)
Whitespace == {"SP", "LF"}

RECURSIVE LStrip(_)
LStrip(t) == IF t # <<>> /\ Head(t) \in Whitespace THEN LStrip(Tail(t)) ELSE t

RECURSIVE RStrip(_)
RStrip(t) ==
    IF t # <<>> /\ LastChar(t) \in Whitespace THEN RStrip(SubSeq(t, 1, Len(t) - 1)) ELSE t

Strip(t) == RStrip(LStrip(t))

(***************************************************************************)
(* create_subtitle_chunks_from_text_and_timings                            *)
(***************************************************************************)
\* lines 339-349: cut after every pause punctuation; acc is <<sentences, current_sentence>>
RECURSIVE CutSentences(_, _, _)
CutSentences(t, k, acc) ==
    IF k > Len(t)
    THEN IF Strip(acc[2]) # <<>> THEN Append(acc[1], Strip(acc[2])) ELSE acc[1]
    ELSE LET cur == Append(acc[2], t[k])
         IN IF t[k] \in pause_punctuation
            THEN CutSentences(t, k + 1, <<Append(acc[1], Strip(cur)), <<>>>>)
            ELSE CutSentences(t, k + 1, <<acc[1], cur>>)

chunk_gap_sentence == R(1, 5)
chunk_gap_piece == R(1, 10)

Min(a, b) == IF a < b THEN a ELSE b

\* lines 376-389: a sentence longer than max_chars_per_chunk, cut every
\* chunk_size characters from offset j (0-based); acc is <<chunks, current_time>>
RECURSIVE CutLong(_, _, _, _)
CutLong(words, j, estimated_duration, acc) ==
    IF j >= Len(words) THEN acc
    ELSE LET chunk_text == SubSeq(words, j + 1, Min(j + max_chars_per_chunk, Len(words)))
             chunk_duration == RDiv(RMul(estimated_duration, FromInt(Len(chunk_text))),
                                    FromInt(Len(words)))
             c == SubtitleChunk(chunk_text, acc[2], RAdd(acc[2], chunk_duration), <<>>)
         IN CutLong(words, j + max_chars_per_chunk, estimated_duration,
                    <<Append(acc[1], c), RAdd(RAdd(acc[2], chunk_duration), chunk_gap_piece)>>)

\* lines 357-389: acc is <<chunks, current_time>>
RECURSIVE AllocateSentences(_, _, _, _, _)
AllocateSentences(sentences, k, duration, total_chars, acc) ==
    IF k > Len(sentences) THEN acc
    ELSE LET sentence == sentences[k]
             char_ratio == IF total_chars > 0 THEN R(Len(sentence), total_chars) ELSE Zero
             estimated_duration == RMul(duration, char_ratio)
         IN IF sentence = <<>> THEN AllocateSentences(sentences, k + 1, duration, total_chars, acc)
            ELSE IF Len(sentence) <= max_chars_per_chunk
            THEN AllocateSentences(sentences, k + 1, duration, total_chars,
                     <<Append(acc[1], SubtitleChunk(sentence, acc[2],
                                                    RAdd(acc[2], estimated_duration), <<>>)),
                       RAdd(RAdd(acc[2], estimated_duration), chunk_gap_sentence)>>)
            ELSE AllocateSentences(sentences, k + 1, duration, total_chars,
                     CutLong(sentence, 0, estimated_duration, acc))

FromTextWithoutEmptyCheck(t, timings) ==
    AllocateSentences(CutSentences(t, 1, <<(<<>>), (<<>>)>>), 1,
                      IF timings = <<>> THEN Zero ELSE timings[Len(timings)].end_time,
                      Len(t), <<(<<>>), Zero>>)[1]
create_subtitle_chunks_from_text_and_timings(t, timings) ==
    IF timings = <<>> THEN <<>>
    ELSE AllocateSentences(CutSentences(t, 1, <<(<<>>), (<<>>)>>), 1,
                           timings[Len(timings)].end_time, Len(t), <<(<<>>), Zero>>)[1]

(***************************************************************************)
(* SubtitleTimingGenerator                                                 *)
(***************************************************************************)
sentence_delimiters_without_kuten == {"exclam", "question", "LF"}
sentence_delimiters == {"kuten", "exclam", "question", "LF"}
chars_per_second == FromInt(8)
NoSubtitleGap == Zero
min_subtitle_gap == R(3, 10)
min_display_time == R(6, 5)
MaxDisplayTimeOfSix == FromInt(6)
max_display_time == FromInt(5)
min_sentence_chars == 5

\* text.replace('\n', '。')
ReplaceNewlines(t) == [k \in 1..Len(t) |-> IF t[k] = "LF" THEN "kuten" ELSE t[k]]

\* re.split(sentence_delimiters, text): acc is <<pieces, current piece>>
RECURSIVE ReSplit(_, _, _)
ReSplit(t, k, acc) ==
    IF k > Len(t) THEN Append(acc[1], acc[2])
    ELSE IF t[k] \in sentence_delimiters
         THEN ReSplit(t, k + 1, <<Append(acc[1], acc[2]), <<>>>>)
         ELSE ReSplit(t, k + 1, <<acc[1], Append(acc[2], t[k])>>)

\* every fragment kept standalone
RECURSIVE KeepShort(_, _, _)
KeepShort(pieces, k, processed_sentences) ==
    IF k > Len(pieces) THEN processed_sentences
    ELSE IF Strip(pieces[k]) = <<>> THEN KeepShort(pieces, k + 1, processed_sentences)
         ELSE KeepShort(pieces, k + 1, Append(processed_sentences, Strip(pieces[k])))

\* lines 138-148
RECURSIVE JoinShort(_, _, _)
JoinShort(pieces, k, processed_sentences) ==
    IF k > Len(pieces) THEN processed_sentences
    ELSE LET sentence == Strip(pieces[k])
             n == Len(processed_sentences)
         IN IF sentence = <<>> THEN JoinShort(pieces, k + 1, processed_sentences)
            ELSE IF Len(sentence) < min_sentence_chars /\ n > 0
            THEN JoinShort(pieces, k + 1,
                     [processed_sentences EXCEPT ![n] = processed_sentences[n] \o sentence])
            ELSE JoinShort(pieces, k + 1, Append(processed_sentences, sentence))

_split_into_sentences(t) == JoinShort(ReSplit(ReplaceNewlines(t), 1, <<(<<>>), (<<>>)>>), 1, <<>>)

\* line 54
InvalidDurationBelowZero(duration) == RLt(duration, Zero)
InvalidDuration(duration) == RLe(duration, Zero)

\* line 107: the next subtitle starts after a gap
NextStartBeforeEnd(end_time) == RSub(end_time, min_subtitle_gap)
NextStartAtEnd(end_time) == end_time
NextStart(end_time) == RAdd(end_time, min_subtitle_gap)

\* line 110: the cursor has reached the end of the audio
ExhaustedPast(current_time, duration) == RLt(duration, current_time)
NeverExhausted(current_time, duration) == FALSE
Exhausted(current_time, duration) == RLe(duration, current_time)

RECURSIVE SumLengths(_, _)
SumLengths(sentences, k) ==
    IF k > Len(sentences) THEN 0 ELSE Len(Strip(sentences[k])) + SumLengths(sentences, k + 1)

Segment(t, start, end) == [text |-> t, start_time |-> start, end_time |-> end]

\* the loop of lines 74-111; the break at line 111 ends the recursion
RECURSIVE TimeSentences(_, _, _, _, _, _)
TimeSentences(sentences, k, duration, total_chars, current_time, segments) ==
    IF k > Len(sentences) THEN segments
    ELSE LET length == Len(Strip(sentences[k]))
             raw_duration == RDiv(FromInt(length), chars_per_second)
             duration_ratio == RDiv(duration, RDiv(FromInt(total_chars), chars_per_second))
             adjusted_duration == RMul(raw_duration, duration_ratio)
             display_duration == RMax(min_display_time, RMin(adjusted_duration, max_display_time))
             end_time == RMin(RAdd(current_time, display_duration), duration)
             next_time == NextStart(end_time)
             out == Append(segments, Segment(Strip(sentences[k]), current_time, end_time))
         IN IF length = 0
            THEN TimeSentences(sentences, k + 1, duration, total_chars, current_time, segments)
            ELSE IF Exhausted(next_time, duration) THEN out
            ELSE TimeSentences(sentences, k + 1, duration, total_chars, next_time, out)

\* lines 114-117
ClampLast(segments, duration) ==
    IF segments # <<>> /\ RLt(duration, segments[Len(segments)].end_time)
    THEN [segments EXCEPT ![Len(segments)].end_time = duration]
    ELSE segments

\* lines 54-119, from the probed duration on: the error raised, or the list returned
generate_subtitle_segments(t, duration) ==
    IF InvalidDuration(duration) THEN [raised |-> "ValueError", value |-> <<>>]
    ELSE LET sentences == _split_into_sentences(t)
             total_chars == SumLengths(sentences, 1)
         IN IF sentences = <<>> \/ total_chars = 0 THEN [raised |-> "", value |-> <<>>]
            ELSE [raised |-> "",
                  value |-> ClampLast(TimeSentences(sentences, 1, duration, total_chars,
                                                    Zero, <<>>), duration)]

(***************************************************************************)
(* generate_subtitle_segments on binary64 values: the same statements,     *)
(* each float operation rounded as the hardware rounds it.                 *)
(***************************************************************************)
\* x * 2^k, exact
XScale(x, k) == IF x.m = <<>> THEN DZero ELSE [m |-> x.m, e |-> x.e + k]

\* the float nearest to the rational r >= 0
Float(r) == DRatio(r.n, r.d)

\* max(a, b) and min(a, b) of Python: a unless b is greater, resp. smaller
XMax(a, b) == IF XLess(a, b) THEN b ELSE a
XMin(a, b) == IF XLess(b, a) THEN b ELSE a

\* chars_per_second = 8.0 = 2^3: dividing by it and multiplying with it are exact
chars_per_second_log2 == 3

\* the loop of lines 74-111 on floats
RECURSIVE TimeSentences64(_, _, _, _, _, _)
TimeSentences64(sentences, k, duration, total_chars, current_time, segs) ==
    IF k > Len(sentences) THEN segs
    ELSE LET length == Len(Strip(sentences[k]))
             \* line 81: total_duration / (total_chars / 8.0)
             duration_ratio == DDiv(XScale(duration, chars_per_second_log2), total_chars)
             \* lines 79 and 82: (length / 8.0) * duration_ratio
             adjusted_duration == XScale(DMul(duration_ratio, length), -chars_per_second_log2)
             display_duration == XMax(Float(min_display_time),
                                      XMin(adjusted_duration, Float(max_display_time)))
             sum == DAdd(current_time, display_duration)
             end_time == IF XLess(duration, sum) THEN duration ELSE sum
             next_time == DAdd(end_time, Float(min_subtitle_gap))
             out == Append(segs, Segment(Strip(sentences[k]), current_time, end_time))
         IN IF length = 0
            THEN TimeSentences64(sentences, k + 1, duration, total_chars, current_time, segs)
            ELSE IF XLe(duration, next_time) THEN out
            ELSE TimeSentences64(sentences, k + 1, duration, total_chars, next_time, out)

\* lines 114-117 on floats
ClampLast64(segs, duration) ==
    IF segs # <<>> /\ XLess(duration, segs[Len(segs)].end_time)
    THEN [segs EXCEPT ![Len(segs)].end_time = duration]
    ELSE segs

\* lines 54-119 on floats: the list returned, empty when the call raises
generate_subtitle_segments64(t, duration) ==
    IF InvalidDuration(duration) THEN <<>>
    ELSE LET sentences == _split_into_sentences(t)
             total_chars == SumLengths(sentences, 1)
         IN IF sentences = <<>> \/ total_chars = 0 THEN <<>>
            ELSE ClampLast64(TimeSentences64(sentences, 1, Float(duration), total_chars,
                                             DZero, <<>>), Float(duration))

(***************************************************************************)
(* Time codes: ASSSubtitleGenerator._format_ass_time and its inverse,       *)
(* VideoGenerator._parse_ass_time.  A string is a sequence of characters.  *)
(***************************************************************************)
DigitChars == <<"0", "1", "2", "3", "4", "5", "6", "7", "8", "9">>

RECURSIVE Decimal(_)
Decimal(n) == IF n < 10 THEN <<DigitChars[n + 1]>>
              ELSE Append(Decimal(n \div 10), DigitChars[(n % 10) + 1])

\* the format {n:02d}
Unpadded(n) == Decimal(n)
Pad2(n) == IF n < 10 THEN <<"0">> \o Decimal(n) ELSE Decimal(n)

\* for seconds >= 0
_format_ass_time(secs_float) ==
    LET total_centiseconds == DTrunc(DMul(secs_float, 100))
        hours == total_centiseconds \div 360000
        minutes == (total_centiseconds % 360000) \div 6000
        secs == (total_centiseconds % 6000) \div 100
        centiseconds == total_centiseconds % 100
    IN Decimal(hours) \o <<":">> \o Pad2(minutes) \o <<":">> \o Pad2(secs)
           \o <<".">> \o Pad2(centiseconds)

IsDigit(c) == \E d \in 1..10 : DigitChars[d] = c

DigitValue(c) == (CHOOSE d \in 1..10 : DigitChars[d] = c) - 1

\* int() of a string of digits
RECURSIVE Number(_)
Number(ds) == IF ds = <<>> THEN 0
              ELSE 10 * Number(SubSeq(ds, 1, Len(ds) - 1)) + DigitValue(ds[Len(ds)])

\* the regular expression ^(\d+):(\d{2}):(\d{2})\.(\d{2})$ on a stripped
\* string: c is the place of the first colon
TimePattern(s, c) ==
    /\ c >= 2
    /\ \A j \in 1..(c - 1) : IsDigit(s[j])
    /\ Len(s) = c + 8
    /\ s[c] = ":" /\ s[c + 3] = ":" /\ s[c + 6] = "."
    /\ \A j \in {c + 1, c + 2, c + 4, c + 5, c + 7, c + 8} : IsDigit(s[j])

\* the error raised, or the float returned
_parse_ass_time(str) ==
    LET s == Strip(str)
        colons == {j \in 1..Len(s) : s[j] = ":"}
        c == IF colons = {} THEN 0
             ELSE CHOOSE j \in colons : \A h \in colons : j <= h
        hours == Number(SubSeq(s, 1, c - 1))
        minutes == Number(SubSeq(s, c + 1, c + 2))
        secs == Number(SubSeq(s, c + 4, c + 5))
        centiseconds == Number(SubSeq(s, c + 7, c + 8))
    IN IF ~TimePattern(s, c) THEN [raised |-> "ValueError", value |-> DZero]
       ELSE [raised |-> "",
             value |-> DAdd(XFromInt(hours * 3600 + minutes * 60 + secs),
                            DRatio(centiseconds, 100))]

(***************************************************************************)
(* ASSSubtitleGenerator.generate_ass_content.  The fixed stretches of the  *)
(* header are written as one token each; the style name, the separators    *)
(* and the line ends are characters.                                       *)
(***************************************************************************)
RECURSIVE JoinLines(_)
JoinLines(lines) ==
    IF lines = <<>> THEN <<>>
    ELSE IF Len(lines) = 1 THEN lines[1]
    ELSE lines[1] \o <<"LF">> \o JoinLines(Tail(lines))

\* the style name written in the header
HeaderStyleName == <<"D", "e", "f", "a", "u", "l", "t">>
StyleLineAs(name) ==
    <<"Style:", "SP">> \o name
        \o <<",", "Noto Sans CJK JP,64,&H00FFFFFF,&H000000FF,&H00000000,&H80000000,0,0,0,0,100,100,0,0,1,3,0,2,60,60,60,1">>
StyleLine == StyleLineAs(HeaderStyleName)

\* the lines of the header; the header ends with a line end
HeaderLines ==
    << <<"[Script Info]">>,
       <<"Title: VoiceVox Generated Subtitles">>,
       <<"ScriptType: v4.00+">>,
       <<"WrapStyle: 0">>,
       <<"ScaledBorderAndShadow: yes">>,
       <<"YCbCr Matrix: TV.601">>,
       <<"PlayResX: 1920">>,
       <<"PlayResY: 1080">>,
       <<>>,
       <<"[V4+ Styles]">>,
       <<"Format:", "SP", "Name, Fontname, Fontsize, PrimaryColour, SecondaryColour, OutlineColour, BackColour, Bold, Italic, Underline, StrikeOut, ScaleX, ScaleY, Spacing, Angle, BorderStyle, Outline, Shadow, Alignment, MarginL, MarginR, MarginV, Encoding">>,
       StyleLine,
       <<>>,
       <<"[Events]">>,
       <<"Format:", "SP", "Layer, Start, End, Style, Name, MarginL, MarginR, MarginV, Effect, Text">> >>

header == JoinLines(HeaderLines) \o <<"LF">>

\* chunk.text.replace('\n', '\\N')
RECURSIVE ReplaceChar(_, _, _)
ReplaceChar(t, old, new) ==
    IF t = <<>> THEN <<>>
    ELSE (IF Head(t) = old THEN new ELSE <<Head(t)>>) \o ReplaceChar(Tail(t), old, new)

KeepNewlines(t) == t
EscapeNewlines(t) == ReplaceChar(t, "LF", <<"backslash", "N">>)

Dialogue(chunk, style) ==
    <<"Dialogue:", "SP", "0", ",">> \o _format_ass_time(chunk.start_time)
        \o <<",">> \o _format_ass_time(chunk.end_time)
        \o <<",">> \o style
        \o <<",", ",", "0", ",", "0", ",", "0", ",", ",">> \o EscapeNewlines(chunk.text)

generate_ass_content(cs, style) ==
    header \o JoinLines([k \in 1..Len(cs) |-> Dialogue(cs[k], style)])

(***************************************************************************)
(* VideoGenerator.parse_ass_subtitle_file, from the content read           *)
(***************************************************************************)
\* the places of the commas of a string, and the n-th of them
Commas(s) == {j \in 1..Len(s) : s[j] = ","}
NthComma(s, n) == CHOOSE j \in Commas(s) : Cardinality({h \in Commas(s) : h <= j}) = n

\* content.split('\n')
SplitLines(content) ==
    LET ends == {j \in 1..Len(content) : content[j] = "LF"}
        nth(n) == CHOOSE j \in ends : Cardinality({h \in ends : h <= j}) = n
    IN [k \in 1..(Cardinality(ends) + 1) |->
           SubSeq(content, IF k = 1 THEN 1 ELSE nth(k - 1) + 1,
                           IF k = Cardinality(ends) + 1 THEN Len(content) ELSE nth(k) - 1)]

\* the n-th comma-separated field of s
Field(s, n) ==
    SubSeq(s, IF n = 1 THEN 1 ELSE NthComma(s, n - 1) + 1, NthComma(s, n) - 1)

\* dialogue_pattern, on what follows "Dialogue:" and its whitespace:
\* (\d+),([^,]+),([^,]+),([^,]+),[^,]*,[^,]*,[^,]*,[^,]*,(.+)
\* the last group starts after the eighth comma
TextGroup(rest) == SubSeq(rest, NthComma(rest, 8) + 1, Len(rest))

DialoguePattern(rest) ==
    /\ Cardinality(Commas(rest)) >= 8
    /\ Field(rest, 1) # <<>>
    /\ \A j \in 1..Len(Field(rest, 1)) : IsDigit(Field(rest, 1)[j])
    /\ \A n \in 2..4 : Field(rest, n) # <<>>
    /\ NthComma(rest, 8) < Len(rest)

\* str.replace of the two characters a, b by the character new
RECURSIVE ReplacePair(_, _, _, _)
ReplacePair(t, a, b, new) ==
    IF Len(t) < 2 THEN t
    ELSE IF t[1] = a /\ t[2] = b
         THEN <<new>> \o ReplacePair(SubSeq(t, 3, Len(t)), a, b, new)
         ELSE <<t[1]>> \o ReplacePair(Tail(t), a, b, new)

\* text.replace('\\N', '\n').replace('\\n', '\n')
UnescapeNewlines(t) ==
    ReplacePair(ReplacePair(t, "backslash", "N", "LF"), "backslash", "n", "LF")

\* the loop of lines 218-238: acc is <<raised, segments>>
RECURSIVE ParseLines(_, _, _)
ParseLines(lines, k, acc) ==
    IF k > Len(lines) \/ acc[1] # "" THEN acc
    ELSE LET line == Strip(lines[k])
             rest == LStrip(Tail(line))
             start_time == _parse_ass_time(Field(rest, 2))
             end_time == _parse_ass_time(Field(rest, 3))
         IN IF line = <<>> \/ line[1] # "Dialogue:" THEN ParseLines(lines, k + 1, acc)
            ELSE IF ~DialoguePattern(rest) THEN ParseLines(lines, k + 1, acc)
            ELSE IF start_time.raised # "" \/ end_time.raised # ""
            THEN <<"ValueError", acc[2]>>
            ELSE ParseLines(lines, k + 1,
                     <<"", Append(acc[2], Segment(UnescapeNewlines(TextGroup(rest)),
                                                  start_time.value, end_time.value))>>)

\* list.sort(key=start_time): stable
RECURSIVE SortByStart(_)
SortByStart(segs) ==
    IF Len(segs) <= 1 THEN segs
    ELSE LET rest == SortByStart(SubSeq(segs, 1, Len(segs) - 1))
             x == segs[Len(segs)]
             before == Cardinality({j \in 1..Len(rest) : XLe(rest[j].start_time, x.start_time)})
         IN SubSeq(rest, 1, before) \o <<x>> \o SubSeq(rest, before + 1, Len(rest))

\* the error raised, or the list returned
parse_ass_subtitle_file(content) ==
    LET r == ParseLines(SplitLines(content), 1, <<"", <<>>>>)
    IN IF r[1] # "" THEN [raised |-> "ValueError", value |-> <<>>]
       ELSE [raised |-> "", value |-> SortByStart(r[2])]

(***************************************************************************)
(* SubtitleGenerator (src/src/subtitle_generator.py)                       *)
(***************************************************************************)
VideoScript(title, overview, comments, conclusion) ==
    [title |-> title, overview |-> overview, comments |-> comments,
     conclusion |-> conclusion]

\* lines 37-45: an empty title, overview or conclusion is left out, every
\* comment is a part
PartsOf(s) ==
    (IF s.title # <<>> THEN <<s.title>> ELSE <<>>)
        \o (IF s.overview # <<>> THEN <<s.overview>> ELSE <<>>)
        \o s.comments
        \o (IF s.conclusion # <<>> THEN <<s.conclusion>> ELSE <<>>)

\* lines 48-61, in float arithmetic
generate_subtitle_with_timing(s, duration) ==
    LET parts == PartsOf(s)
        segment_duration == IF parts # <<>> THEN DDiv(duration, Len(parts)) ELSE duration
    IN [k \in 1..Len(parts) |->
           [text |-> parts[k],
            start_time |-> DMul(segment_duration, k - 1),
            end_time |-> DMul(segment_duration, k)]]

\* line 81: the character still fits on the current line
FitsOneMore(current_line, width) == Len(current_line) <= width
FitsLine(current_line, width) == Len(current_line) + 1 <= width

\* lines 77-89: acc is <<lines, current_line>>
RECURSIVE BreakLines(_, _, _, _)
BreakLines(t, k, width, acc) ==
    IF k > Len(t)
    THEN IF acc[2] # <<>> THEN Append(acc[1], acc[2]) ELSE acc[1]
    ELSE IF FitsLine(acc[2], width)
         THEN BreakLines(t, k + 1, width, <<acc[1], Append(acc[2], t[k])>>)
         ELSE BreakLines(t, k + 1, width, <<Append(acc[1], acc[2]), <<t[k]>>>>)

format_text_with_line_breaks(t, width) ==
    IF Len(t) <= width THEN t
    ELSE JoinLines(BreakLines(t, 1, width, <<(<<>>), (<<>>)>>))

(***************************************************************************)
(* Inputs                                                                  *)
(***************************************************************************)
MaxPhrases == 4
MaxTokens == 4
MaxChunks == 3

\* all sequences of at most n elements of S
SeqsUpTo(S, n) == UNION {[1..k -> S] : k \in 0..n}

RECURSIVE Concat(_)
Concat(ss) == IF ss = <<>> THEN <<>> ELSE Head(ss) \o Concat(Tail(ss))

\* mora records of the TTS engine: text, consonant_length, vowel_length
\* (pitch is carried through by the code and never read by the timing logic)
Mora(t, cl, vl) == [text |-> t, consonant_length |-> cl, vowel_length |-> vl]

MoraInputs ==
    { Mora(<<"a">>, None, R(1, 5)),
      Mora(<<"ha">>, R(1, 10), R(1, 10)),
      Mora(<<"touten">>, None, None),
      Mora(Rep("a", 10), Zero, R(1, 5)),
      Mora(<<"a">>, None, R(3, 2)),
      Mora(<<"a">>, None, R(-1, 5)) }

PauseInputs == { Mora(<<>>, None, R(1, 5)), Mora(<<>>, None, None) }

Phrase(moras, pause_mora) == [moras |-> moras, pause_mora |-> pause_mora]

PhraseInputs ==
    {Phrase(<<m>>, <<>>) : m \in MoraInputs}
    \cup {Phrase(<<>>, <<p>>) : p \in PauseInputs}
    \cup {Phrase(<<Mora(<<"a">>, None, R(1, 5)), Mora(<<"ha">>, R(1, 10), R(1, 10))>>,
                 <<Mora(<<>>, Zero, R(1, 5))>>)}

\* the units of scenario B: four contiguous text-bearing units over 1.0 s
ScenarioBPhrases ==
    << Phrase(<<Mora(<<"o">>, None, R(1, 4)), Mora(<<"ha">>, R(1, 10), R(3, 20)),
                Mora(<<"yo">>, R(1, 10), R(3, 20)), Mora(<<"u">>, None, R(1, 4))>>, <<>>) >>

\* original_text of the text path: pause punctuation, whitespace, short and long runs
OriginalTextTokens == {<<"a">>, <<"touten">>, <<"SP">>, Rep("a", 10)}
OriginalTexts == {Concat(ts) : ts \in SeqsUpTo(OriginalTextTokens, MaxTokens)}

\* script text of the coarse estimator: terminators, whitespace, short and long runs
ScriptTokens == {<<"a">>, <<"kuten">>, <<"LF">>, <<"SP">>, Rep("a", 5)}
\* the script of scenario A: a sentence of 8 and a sentence of 5 characters
ScenarioASentence1 == <<"ko", "re", "ha", "te", "su", "to", "de", "su">>
ScenarioASentence2 == <<"tsugi", "no", "bun", "de", "su">>
ScenarioAText == ScenarioASentence1 \o <<"kuten">> \o ScenarioASentence2 \o <<"kuten">>

\* a script of four fragments, of 1, 5, 5 and 1 characters: three sentences
ThreeSentences ==
    <<"a", "kuten">> \o Rep("a", 5) \o <<"kuten">> \o Rep("a", 5) \o <<"kuten", "a">>

ScriptTexts ==
    {Concat(ts) : ts \in SeqsUpTo(ScriptTokens, MaxTokens)} \cup {ScenarioAText, ThreeSentences}

\* audio durations probed from the file, in seconds
Durations == {FromInt(-1), Zero, FromInt(1), R(3, 2), R(5, 2), FromInt(10), FromInt(12)}

\* chunk lists handed to the optimization pass directly: contiguous chunks,
\* each with one source unit
ChunkTexts == {<<"a">>, Rep("a", 10), Rep("a", 11)}
ChunkDurations == {R(1, 5), R(3, 5)}
ChunkShapes == {[text |-> t, duration |-> d] : t \in ChunkTexts, d \in ChunkDurations}

RECURSIVE LayOut(_, _, _)
LayOut(shapes, k, acc) ==
    IF k > Len(shapes) THEN acc[1]
    ELSE LET m == MoraTiming(shapes[k].text, acc[2], Zero, shapes[k].duration)
         IN LayOut(shapes, k + 1,
                   <<Append(acc[1], _create_chunk_from_moras(<<m>>, m.text)), m.end_time>>)

ChunkLists == {LayOut(shapes, 1, <<(<<>>), Zero>>) : shapes \in SeqsUpTo(ChunkShapes, MaxChunks)}

\* times handed to the formatter, in milliseconds: whole and fractional
\* centiseconds, around the minute and the hour, with and without hours
TimeMillis == {0, 5, 10, 280, 290, 570, 580, 1130, 1140, 1234, 1390, 59999, 60000, 3599999}
TimeHours == {0, 1, 2, 100}
Times == {DRatio(h * 3600000 + k, 1000) : h \in TimeHours, k \in TimeMillis}

\* chunk lists handed to the serializer: texts with newlines, commas and
\* backslashes, in any order of start times
MaxRenderChunks == 2
RenderTexts == { <<"a">>, <<"a", "LF", "b">>, <<",", "LF">>, <<"backslash", "N">>, <<>> }
RenderStarts == {DZero, DRatio(3, 2)}
RenderChunks == {SubtitleChunk(t, st, DAdd(st, XFromInt(1)), <<>>) :
                     t \in RenderTexts, st \in RenderStarts}
StyleNames == {<<"D", "e", "f", "a", "u", "l", "t">>, <<"C", "u", "s", "t", "o", "m">>}

\* scripts: each of title, overview and conclusion present or empty, up to
\* MaxComments comments, empty ones included
MaxComments == 4
CommentTexts == {<<>>, <<"a">>, <<"b">>}
Scripts ==
    {VideoScript(t, o, cm, e) :
        t \in {<<>>, <<"title">>}, o \in {<<>>, <<"overview">>},
        cm \in SeqsUpTo(CommentTexts, MaxComments), e \in {<<>>, <<"conclusion">>}}

\* texts to break into lines, with and without newlines of their own, and
\* line widths from 0
MaxTextLen == 5
MaxWidth == 3
LineTexts == SeqsUpTo({"a", "b", "LF"}, MaxTextLen)

\* audio durations in tenths of a second
AudioTenths == {0, 1, 9, 10, 18, 600}
AudioDurations == {DRatio(k, 10) : k \in AudioTenths}

(***************************************************************************)
(* The state machine: one call of one entry point per behaviour            *)
(***************************************************************************)
NoSplit == [reason |-> "unset", current_text |-> <<>>, mora_text |-> <<>>]

Idle ==
    /\ pc = "start"
    /\ mora_timings = <<>>
    /\ i = 0
    /\ current_chunk_moras = <<>>
    /\ current_text = <<>>
    /\ last_split = NoSplit
    /\ result = <<>>
    /\ result64 = <<>>
    /\ previous = <<>>

InitBuildChunks ==
    /\ call = "build_chunks"
    /\ accent_phrases \in SeqsUpTo(PhraseInputs, MaxPhrases) \cup {ScenarioBPhrases}
    /\ original_text = <<>>
    /\ chunks = <<>>
    /\ text = <<>>
    /\ total_duration = Zero

InitFromText ==
    /\ call = "build_chunks_from_text"
    /\ accent_phrases \in SeqsUpTo(PhraseInputs, 1)
    /\ original_text \in OriginalTexts
    /\ chunks = <<>>
    /\ text = <<>>
    /\ total_duration = Zero

InitSegments ==
    /\ call = "generate_segments"
    /\ accent_phrases = <<>>
    /\ original_text = <<>>
    /\ chunks = <<>>
    /\ text \in ScriptTexts
    /\ total_duration \in Durations

InitOptimize ==
    /\ call = "optimize"
    /\ accent_phrases = <<>>
    /\ original_text = <<>>
    /\ chunks \in ChunkLists
    /\ text = <<>>
    /\ total_duration = Zero

\* no chunking or timing call is made
NoChunkerCall ==
    /\ accent_phrases = <<>>
    /\ original_text = <<>>
    /\ chunks = <<>>
    /\ text = <<>>
    /\ total_duration = Zero

\* no serializer call is made
NoTimeCall ==
    /\ seconds = DZero
    /\ time_str = <<>>
    /\ parsed = [raised |-> "", value |-> DZero]

NoRenderCall ==
    /\ subtitle_chunks = <<>>
    /\ style_name = <<>>
    /\ ass_content = <<>>
    /\ file_segments = [raised |-> "", value |-> <<>>]

NoSerializerCall == NoTimeCall /\ NoRenderCall

NoTimingCall ==
    /\ script = VideoScript(<<>>, <<>>, <<>>, <<>>)
    /\ audio_duration = DZero
    /\ subtitle_segments = <<>>

NoLineBreakCall ==
    /\ long_text = <<>>
    /\ max_chars_per_line = 0
    /\ formatted = <<>>

NoGeneratorCall == NoTimingCall /\ NoLineBreakCall

InitLineBreaks ==
    /\ call = "line_breaks"
    /\ long_text \in LineTexts
    /\ max_chars_per_line \in 0..MaxWidth
    /\ formatted = <<>>

InitSubtitleWithTiming ==
    /\ call = "subtitle_with_timing"
    /\ script \in Scripts
    /\ audio_duration \in AudioDurations
    /\ subtitle_segments = <<>>

InitFormatTime ==
    /\ call = "format_time"
    /\ seconds \in Times
    /\ time_str = <<>>
    /\ parsed = [raised |-> "", value |-> DZero]

InitRender ==
    /\ call = "render"
    /\ subtitle_chunks \in SeqsUpTo(RenderChunks, MaxRenderChunks)
    /\ style_name \in StyleNames
    /\ ass_content = <<>>
    /\ file_segments = [raised |-> "", value |-> <<>>]

Init ==
    /\ Idle
    /\ \/ (InitBuildChunks \/ InitFromText \/ InitSegments \/ InitOptimize)
          /\ NoSerializerCall /\ NoGeneratorCall
       \/ InitFormatTime /\ NoChunkerCall /\ NoRenderCall /\ NoGeneratorCall
       \/ InitRender /\ NoChunkerCall /\ NoTimeCall /\ NoGeneratorCall
       \/ InitSubtitleWithTiming /\ NoChunkerCall /\ NoSerializerCall /\ NoLineBreakCall
       \/ InitLineBreaks /\ NoChunkerCall /\ NoSerializerCall /\ NoTimingCall

\* extract_mora_timings(accent_phrases)
Extract ==
    /\ pc = "start"
    /\ call \in {"build_chunks", "build_chunks_from_text"}
    /\ mora_timings' = extract_mora_timings(accent_phrases)
    /\ pc' = "extracted"
    /\ UNCHANGED <<serializerVars, generatorVars, result64>>
    /\ UNCHANGED <<call, accent_phrases, original_text, i, current_chunk_moras,
                   current_text, chunks, last_split, text, total_duration, result, previous>>

\* create_subtitle_chunks, lines 113-118
ScanBegin ==
    /\ pc = "extracted"
    /\ call = "build_chunks"
    /\ IF mora_timings = <<>>
       THEN /\ pc' = "returned"
            /\ i' = i
       ELSE /\ pc' = "scan"
            /\ i' = 1
    /\ result' = <<>>
    /\ chunks' = <<>>
    /\ current_chunk_moras' = <<>>
    /\ current_text' = <<>>
    /\ UNCHANGED <<serializerVars, generatorVars, result64>>
    /\ UNCHANGED <<call, accent_phrases, original_text, mora_timings, last_split,
                   text, total_duration, previous>>

\* create_subtitle_chunks, one iteration of the loop of lines 120-145
ScanStep ==
    /\ pc = "scan"
    /\ i <= Len(mora_timings)
    /\ LET mora == mora_timings[i]
           new_text == current_text \o mora.text
           new_chunk_moras == Append(current_chunk_moras, mora)
           should_split == _should_split_chunk(current_text, new_text,
                                               current_chunk_moras, mora)
       IN IF mora.text = <<>>
          THEN /\ UNCHANGED <<chunks, current_chunk_moras, current_text>>
               /\ last_split' = [reason |-> "pause", current_text |-> current_text,
                                 mora_text |-> mora.text]
          ELSE /\ last_split' = [reason |-> SplitReason(current_text, new_text,
                                                        current_chunk_moras, mora),
                                 current_text |-> current_text, mora_text |-> mora.text]
               /\ IF should_split /\ current_chunk_moras # <<>>
                  THEN /\ chunks' = Append(chunks, _create_chunk_from_moras(
                                                       current_chunk_moras, current_text))
                       /\ current_chunk_moras' = <<mora>>
                       /\ current_text' = mora.text
                  ELSE /\ chunks' = chunks
                       /\ current_chunk_moras' = new_chunk_moras
                       /\ current_text' = new_text
    /\ i' = i + 1
    /\ UNCHANGED <<serializerVars, generatorVars, result64>>
    /\ UNCHANGED <<call, pc, accent_phrases, original_text, mora_timings,
                   text, total_duration, result, previous>>

\* create_subtitle_chunks, lines 147-152: the last chunk, then the optimization pass
ScanEnd ==
    /\ pc = "scan"
    /\ i > Len(mora_timings)
    /\ chunks' = IF current_chunk_moras # <<>>
                 THEN Append(chunks, _create_chunk_from_moras(current_chunk_moras,
                                                              current_text))
                 ELSE chunks
    /\ result' = _optimize_chunks(chunks')
    /\ pc' = "returned"
    /\ UNCHANGED <<serializerVars, generatorVars, result64>>
    /\ UNCHANGED <<call, accent_phrases, original_text, mora_timings, i,
                   current_chunk_moras, current_text, last_split, text,
                   total_duration, previous>>

\* create_subtitle_chunks_from_text_and_timings(original_text, mora_timings)
BuildChunksFromText ==
    /\ pc = "extracted"
    /\ call = "build_chunks_from_text"
    /\ chunks' = create_subtitle_chunks_from_text_and_timings(original_text, mora_timings)
    /\ result' = chunks'
    /\ pc' = "returned"
    /\ UNCHANGED <<serializerVars, generatorVars, result64>>
    /\ UNCHANGED <<call, accent_phrases, original_text, mora_timings, i,
                   current_chunk_moras, current_text, last_split, text,
                   total_duration, previous>>

\* generate_subtitle_segments(text, audio of length total_duration): the list
\* returned, in exact arithmetic (result) and as the binary64 values (result64)
GenerateSegments ==
    /\ pc = "start"
    /\ call = "generate_segments"
    /\ LET r == generate_subtitle_segments(text, total_duration)
       IN /\ result' = r.value
          /\ pc' = IF r.raised = "" THEN "returned" ELSE "raised"
    /\ result64' = generate_subtitle_segments64(text, total_duration)
    /\ UNCHANGED <<serializerVars, generatorVars>>
    /\ UNCHANGED <<call, accent_phrases, original_text, mora_timings, i,
                   current_chunk_moras, current_text, chunks, last_split, text,
                   total_duration, previous>>

\* _optimize_chunks(chunks), called on a chunk list directly
Optimize ==
    /\ pc = "start"
    /\ call = "optimize"
    /\ result' = _optimize_chunks(chunks)
    /\ pc' = "returned"
    /\ UNCHANGED <<serializerVars, generatorVars, result64>>
    /\ UNCHANGED <<call, accent_phrases, original_text, mora_timings, i,
                   current_chunk_moras, current_text, chunks, last_split, text,
                   total_duration, previous>>

\* _optimize_chunks run once more, on the list a pass returned
OptimizeAgain ==
    /\ pc = "returned"
    /\ call \in {"build_chunks", "optimize"}
    /\ previous' = result
    /\ result' = _optimize_chunks(result)
    /\ pc' = "reoptimized"
    /\ UNCHANGED <<serializerVars, generatorVars, result64>>
    /\ UNCHANGED <<call, accent_phrases, original_text, mora_timings, i,
                   current_chunk_moras, current_text, chunks, last_split, text,
                   total_duration>>

\* _format_ass_time(seconds)
FormatTime ==
    /\ pc = "start"
    /\ call = "format_time"
    /\ time_str' = _format_ass_time(seconds)
    /\ pc' = "formatted"
    /\ UNCHANGED <<call, chunkerVars, renderVars, generatorVars, seconds, parsed>>

\* _parse_ass_time(time_str), on the string the formatter returned
ParseTime ==
    /\ pc = "formatted"
    /\ call = "format_time"
    /\ parsed' = _parse_ass_time(time_str)
    /\ pc' = IF parsed'.raised = "" THEN "parsed" ELSE "raised"
    /\ UNCHANGED <<call, chunkerVars, renderVars, generatorVars, seconds, time_str>>

\* generate_ass_content(subtitle_chunks, style_name)
Render ==
    /\ pc = "start"
    /\ call = "render"
    /\ ass_content' = generate_ass_content(subtitle_chunks, style_name)
    /\ pc' = "rendered"
    /\ UNCHANGED <<call, chunkerVars, timeVars, generatorVars, subtitle_chunks, style_name,
                   file_segments>>

\* parse_ass_subtitle_file, on a file that holds the content rendered
ParseFile ==
    /\ pc = "rendered"
    /\ call = "render"
    /\ file_segments' = parse_ass_subtitle_file(ass_content)
    /\ pc' = IF file_segments'.raised = "" THEN "file_parsed" ELSE "raised"
    /\ UNCHANGED <<call, chunkerVars, timeVars, generatorVars, subtitle_chunks, style_name,
                   ass_content>>

\* generate_subtitle_with_timing(script, audio_duration)
SubtitleWithTiming ==
    /\ pc = "start"
    /\ call = "subtitle_with_timing"
    /\ subtitle_segments' = generate_subtitle_with_timing(script, audio_duration)
    /\ pc' = "returned"
    /\ UNCHANGED <<call, chunkerVars, serializerVars, lineBreakVars, script, audio_duration>>

\* format_text_with_line_breaks(long_text, max_chars_per_line)
LineBreaks ==
    /\ pc = "start"
    /\ call = "line_breaks"
    /\ formatted' = format_text_with_line_breaks(long_text, max_chars_per_line)
    /\ pc' = "returned"
    /\ UNCHANGED <<call, chunkerVars, serializerVars, timingVars, long_text,
                   max_chars_per_line>>

Next ==
    \/ Extract
    \/ ScanBegin
    \/ ScanStep
    \/ ScanEnd
    \/ BuildChunksFromText
    \/ GenerateSegments
    \/ Optimize
    \/ OptimizeAgain
    \/ FormatTime
    \/ ParseTime
    \/ Render
    \/ ParseFile
    \/ SubtitleWithTiming
    \/ LineBreaks

Spec == Init /\ [][Next]_vars

(***************************************************************************)
(* Properties                                                              *)
(***************************************************************************)
Returned(entry) == call = entry /\ pc = "returned"

\* the lengths of every extracted unit are >= 0
NonNegativeLengths ==
    \A k \in 1..Len(mora_timings) :
        /\ RLe(Zero, mora_timings[k].consonant_length)
        /\ RLe(Zero, mora_timings[k].vowel_length)

\* ascending start times, and no segment starts before its predecessor ends
Ordered(segs) ==
    \A k \in 1..(Len(segs) - 1) :
        /\ RLe(segs[k].start_time, segs[k + 1].start_time)
        /\ RLe(segs[k].end_time, segs[k + 1].start_time)

PositiveDurations(segs) ==
    \A k \in 1..Len(segs) : RLt(segs[k].start_time, segs[k].end_time)

\* C1: the segments returned by build_chunks, build_chunks_from_text and
\* generate_segments are in ascending start_time order and do not overlap
\* (segments[i].end_time <= segments[i+1].start_time), given unit lengths >= 0
\* and a positive total duration.
C1_OrderedNonOverlapping ==
    ( /\ pc = "returned"
      /\ call \in {"build_chunks", "build_chunks_from_text", "generate_segments"}
      /\ NonNegativeLengths )
    => Ordered(result)

\* build_chunks returned several chunks, one of them merged by the optimization
\* pass, with a pause between two of them
C1_Witness ==
    /\ Returned("build_chunks")
    /\ NonNegativeLengths
    /\ Len(result) >= 2
    /\ Len(result) < Len(chunks)
    /\ \E k \in 1..(Len(result) - 1) : RLt(result[k].end_time, result[k + 1].start_time)

\* C2: every segment returned by generate_segments has end_time > start_time,
\* the segments clamped to total_duration included.
C2_SegmentsPositive ==
    Returned("generate_segments") => PositiveDurations(result)

\* a returned segment was cut at the end of the audio, shorter than min_display_time
C2_Witness ==
    /\ Returned("generate_segments")
    /\ Len(result) >= 2
    /\ result[Len(result)].end_time = total_duration
    /\ RLt(RSub(result[Len(result)].end_time, result[Len(result)].start_time),
           min_display_time)

\* C3: every chunk returned by build_chunks and by build_chunks_from_text has
\* end_time > start_time, for every timing sequence extract_timings produces
\* (lengths >= 0, missing lengths coalesced to zero).
C3_ChunksPositive ==
    ( /\ pc = "returned"
      /\ call \in {"build_chunks", "build_chunks_from_text"}
      /\ NonNegativeLengths )
    => PositiveDurations(result)

\* C4: generate_segments with a total duration <= 0 raises the invalid-duration
\* error and returns no list, whatever the text.
C4_InvalidDurationRaises ==
    ( /\ call = "generate_segments"
      /\ pc # "start"
      /\ RLe(total_duration, Zero) )
    => (pc = "raised" /\ result = <<>>)

\* the error was raised for a zero duration and a text that has a sentence
C4_Witness ==
    /\ call = "generate_segments"
    /\ pc = "raised"
    /\ total_duration = Zero
    /\ Len(text) >= 5
    /\ \A k \in 1..Len(text) : text[k] = "a"

Terminators == {"kuten", "exclam", "question", "LF"}

\* the text is empty or made only of terminators, newlines and whitespace
NoSentence(t) == \A k \in 1..Len(t) : t[k] \in Terminators \cup {"SP"}

\* C5: for total_duration > 0, generate_segments returns an empty list without
\* raising when the text is empty or has only terminators, newlines and whitespace.
C5_NothingToCaption ==
    ( /\ call = "generate_segments"
      /\ pc # "start"
      /\ RLt(Zero, total_duration)
      /\ NoSentence(text) )
    => (pc = "returned" /\ result = <<>>)

\* an empty list was returned for a text of terminators and whitespace
C5_Witness ==
    /\ Returned("generate_segments")
    /\ NoSentence(text)
    /\ \E k \in 1..Len(text) : text[k] = "kuten"
    /\ \E k \in 1..Len(text) : text[k] = "SP"
    /\ \E k \in 1..Len(text) : text[k] = "LF"
    /\ result = <<>>

\* C6: build_chunks and build_chunks_from_text return an empty chunk list,
\* without raising, when the timing list is empty (whatever original_text is).
C6_EmptyTimings ==
    ( /\ call \in {"build_chunks", "build_chunks_from_text"}
      /\ pc \notin {"start", "extracted"}
      /\ mora_timings = <<>> )
    => (pc \in {"returned", "reoptimized"} /\ result = <<>>)

\* build_chunks_from_text returned for an empty timing list and a text with a sentence
C6_Witness ==
    /\ Returned("build_chunks_from_text")
    /\ mora_timings = <<>>
    /\ accent_phrases # <<>>
    /\ Len(original_text) >= 2
    /\ result = <<>>

\* the number of input chunks behind each chunk the optimization pass returns
RECURSIVE GroupSizes(_, _)
GroupSizes(cs, k) ==
    IF k > Len(cs) THEN <<>>
    ELSE IF ShouldMerge(cs, k) THEN <<2>> \o GroupSizes(cs, k + 2)
         ELSE <<1>> \o GroupSizes(cs, k + 1)

\* chunk k is shorter than min_chunk_duration and fits with its successor
Mergeable(cs, k) ==
    /\ RLt(RSub(cs[k].end_time, cs[k].start_time), R(1, 2))
    /\ k < Len(cs)
    /\ Len(cs[k].text) + Len(cs[k + 1].text) <= 20

\* C7 as claimed: applying the optimization pass to its own output returns
\* that output unchanged.
C7_Idempotent == pc = "reoptimized" => result = previous

\* C7 as amended: after one pass, a chunk that is still shorter than
\* min_chunk_duration and fits with its successor within max_chars_per_chunk
\* is one the pass itself produced by merging: every chunk the pass kept
\* unmerged is at least 0.5s long, or last, or too long for its successor.
C7_OnlyMergedStayMergeable ==
    ( /\ pc = "returned"
      /\ call \in {"build_chunks", "optimize"} )
    => \A k \in 1..Len(result) :
           Mergeable(result, k) => GroupSizes(chunks, 1)[k] = 2

\* the pass kept a short chunk unmerged, and merged the two chunks after it
\* into a successor the kept chunk does not fit with
C7_Witness ==
    /\ pc = "returned"
    /\ call \in {"build_chunks", "optimize"}
    /\ GroupSizes(chunks, 1) = <<1, 2>>
    /\ Len(result) = 2
    /\ RLt(RSub(result[1].end_time, result[1].start_time), R(1, 2))
    /\ Len(result[1].text) + Len(result[2].text) > 20

\* a decision of _should_split_chunk was taken for a text-bearing unit
Decided == pc = "scan" /\ last_split.reason \notin {"unset", "pause"}

NewLength == Len(last_split.current_text) + Len(last_split.mora_text)

\* the unit of the last decision opened a new chunk
StartedNewChunk ==
    /\ current_text = last_split.mora_text
    /\ Len(current_chunk_moras) = 1
    /\ chunks # <<>>
    /\ chunks[Len(chunks)].text = last_split.current_text

\* the unit of the last decision was appended to the current chunk
Appended == current_text = last_split.current_text \o last_split.mora_text

\* C8: a unit that brings the chunk text to exactly 20 characters does not
\* trigger the character-count split; a unit that would bring a non-empty chunk
\* to 21 or more characters always starts a new chunk.
C8_CharacterBoundary ==
    Decided =>
        /\ NewLength = 20 => last_split.reason # "chars"
        /\ (NewLength = 20 /\ last_split.reason \in {"none", "keep_particle"}) => Appended
        /\ (NewLength >= 21 /\ last_split.current_text # <<>>) => StartedNewChunk

\* a chunk of exactly 20 characters was completed, and the unit that would have
\* made it 21 opened the next chunk
C8_Witness ==
    /\ Decided
    /\ NewLength = 21
    /\ Len(last_split.current_text) = 20
    /\ StartedNewChunk
    /\ Len(chunks[Len(chunks)].moras) = 2

IsParticle(t) ==
    Len(t) = 1 /\ t[1] \in {"no", "ni", "wo", "ga", "ha", "de", "to", "ya", "ka"}

EndsWith(t, S) == t # <<>> /\ t[Len(t)] \in S

\* C9 as claimed: when the incoming unit is a connective particle, neither the
\* trailing-punctuation trigger nor the particle-boundary trigger splits: the
\* unit is appended unless the character-count or duration trigger fires.
C9_ParticleNeverSplits ==
    ( /\ Decided
      /\ IsParticle(last_split.mora_text)
      /\ last_split.current_text # <<>>
      /\ last_split.reason \notin {"chars", "duration"} )
    => Appended

\* C9 as amended: when the incoming unit is a connective particle, the
\* particle-boundary trigger does not split; the unit is appended unless the
\* character-count, the duration or the trailing-punctuation trigger fires.
C9_ParticleSuppressesBoundary ==
    ( /\ Decided
      /\ IsParticle(last_split.mora_text)
      /\ last_split.current_text # <<>>
      /\ last_split.reason \notin {"chars", "duration"}
      /\ ~EndsWith(last_split.current_text, {"kuten", "exclam", "question", "touten"}) )
    => Appended

\* a particle arrived at a chunk of 3 or more characters ending with a particle,
\* and was appended
C9_Witness ==
    /\ Decided
    /\ IsParticle(last_split.mora_text)
    /\ Len(last_split.current_text) >= 3
    /\ EndsWith(last_split.current_text, {"ha"})
    /\ Appended

\* C10: on both chunking paths the returned list is the optimization pass run
\* over the initially proposed chunks.
C10_BothPathsOptimized ==
    ( /\ pc = "returned"
      /\ call \in {"build_chunks", "build_chunks_from_text"} )
    => result = _optimize_chunks(chunks)

\* C11: extract_timings treats every malformed length field (missing, null or
\* negative) as zero: every emitted unit has consonant_length >= 0,
\* vowel_length >= 0 and end_time >= start_time.
C11_MalformedLengthsAreZero ==
    ( /\ call \in {"build_chunks", "build_chunks_from_text"}
      /\ pc # "start" )
    => \A k \in 1..Len(mora_timings) :
           /\ RLe(Zero, mora_timings[k].consonant_length)
           /\ RLe(Zero, mora_timings[k].vowel_length)
           /\ RLe(mora_timings[k].start_time, mora_timings[k].end_time)

TimeParsed == call = "format_time" /\ pc = "parsed"

\* the rounding allowance of the round trip, 2^-30 seconds
Allowance == XPow2(-30)

\* C12 as claimed: formatting a time t >= 0 as H:MM:SS.CC and parsing the
\* string back yields t' with t - 0.01 < t' <= t, for any number of hours.
C12_RoundTrip ==
    ( /\ call = "format_time"
      /\ pc \in {"parsed", "raised"} )
    => /\ pc = "parsed"
       /\ XLe(parsed.value, seconds)
       /\ XLess(XMul(seconds, 100), XAdd(XMul(parsed.value, 100), XFromInt(1)))

\* C12 as amended: the string parses back without error to a t' with
\* t - 0.01 - a < t' < t + a, where a = 2^-30 s allows for the rounding of
\* the float operations on both sides.
C12_RoundTripUpToRounding ==
    ( /\ call = "format_time"
      /\ pc \in {"parsed", "raised"} )
    => /\ pc = "parsed"
       /\ XLess(parsed.value, XAdd(seconds, Allowance))
       /\ XLess(XMul(seconds, 100),
                XAdd(XAdd(XMul(parsed.value, 100), XFromInt(1)), XMul(Allowance, 100)))

\* a time of more than an hour that is not a whole number of centiseconds
\* was cut to the centisecond below and parsed back
C12_Witness ==
    /\ TimeParsed
    /\ XLe(XFromInt(3600), seconds)
    /\ XLess(XAdd(parsed.value, XPow2(-8)), seconds)
    /\ Len(time_str) = 10

Rendered == call = "render" /\ pc = "rendered"

\* the places of the character c in the string t, and the n-th of them
Places(t, c) == {j \in 1..Len(t) : t[j] = c}
NthPlace(t, c, n) ==
    CHOOSE j \in Places(t, c) : Cardinality({h \in Places(t, c) : h <= j}) = n

\* t.split(c)
SplitOn(t, c) ==
    [k \in 1..(Cardinality(Places(t, c)) + 1) |->
        SubSeq(t, IF k = 1 THEN 1 ELSE NthPlace(t, c, k - 1) + 1,
                  IF k = Cardinality(Places(t, c)) + 1 THEN Len(t)
                  ELSE NthPlace(t, c, k) - 1)]

IsDialogue(line) == line # <<>> /\ line[1] = "Dialogue:"
IsStyle(line) == line # <<>> /\ line[1] = "Style:"

DialogueLines == SelectSeq(SplitOn(ass_content, "LF"), IsDialogue)
StyleLines == SelectSeq(SplitOn(ass_content, "LF"), IsStyle)

\* the fields of a dialogue line: Start is the second, Style the fourth, and
\* Text is everything after the ninth comma
StartField(line) == SubSeq(line, NthPlace(line, ",", 1) + 1, NthPlace(line, ",", 2) - 1)
StyleField(line) == SubSeq(line, NthPlace(line, ",", 3) + 1, NthPlace(line, ",", 4) - 1)
TextField(line) == SubSeq(line, NthPlace(line, ",", 9) + 1, Len(line))

\* f is t with every newline replaced by backslash, N and nothing else changed
EscapedAs(t, f) ==
    /\ Len(f) = Len(t) + Cardinality(Places(t, "LF"))
    /\ \A k \in 1..Len(t) :
           LET q == k + Cardinality({h \in Places(t, "LF") : h < k})
           IN IF t[k] = "LF" THEN f[q] = "backslash" /\ f[q + 1] = "N"
              ELSE f[q] = t[k]

\* C13: render emits exactly one dialogue line per input segment, in input
\* order without re-sorting, and the text field of line i is segment i's text
\* with every literal newline replaced by the two-character escape \N and no
\* other character added, removed or substituted.
C13_OneLinePerSegment ==
    Rendered =>
        /\ Len(DialogueLines) = Len(subtitle_chunks)
        /\ Len(SplitOn(ass_content, "LF")) =
               Len(HeaderLines) + (IF subtitle_chunks = <<>> THEN 1 ELSE Len(subtitle_chunks))
        /\ \A k \in 1..Len(subtitle_chunks) :
               /\ EscapedAs(subtitle_chunks[k].text, TextField(DialogueLines[k]))
               /\ StartField(DialogueLines[k]) = _format_ass_time(subtitle_chunks[k].start_time)

\* two segments were rendered, the later one first, with newlines and a comma
\* in their texts
C13_Witness ==
    /\ Rendered
    /\ Len(subtitle_chunks) = 2
    /\ XLess(subtitle_chunks[2].start_time, subtitle_chunks[1].start_time)
    /\ subtitle_chunks[1].text = <<",", "LF">>
    /\ subtitle_chunks[2].text = <<"a", "LF", "b">>
    /\ Len(DialogueLines) = 2

\* the name of the style a Style line defines
DefinedStyleName(line) == SubSeq(line, 3, NthPlace(line, ",", 1) - 1)

\* C14: for every style_name passed to render, the header has exactly one style
\* definition and its name equals style_name, so the style every dialogue line
\* refers to is the style the header defines.
C14_StyleIsDefined ==
    Rendered =>
        /\ Len(StyleLines) = 1
        /\ DefinedStyleName(StyleLines[1]) = style_name
        /\ \A k \in 1..Len(DialogueLines) :
               StyleField(DialogueLines[k]) = DefinedStyleName(StyleLines[1])

ScenarioA ==
    /\ Returned("generate_segments")
    /\ text = ScenarioAText
    /\ total_duration = FromInt(10)

\* C15 as claimed (scenario A): generate_segments on the two sentences of 8
\* and 5 characters with total_duration = 10.0 returns exactly 2 segments, each
\* with a duration within [1.2, 5.0] seconds, and the last segment's end_time
\* is exactly 10.0.
C15_ScenarioA ==
    ScenarioA =>
        /\ Len(result) = 2
        /\ \A k \in 1..Len(result) :
               /\ RLe(R(6, 5), RSub(result[k].end_time, result[k].start_time))
               /\ RLe(RSub(result[k].end_time, result[k].start_time), FromInt(5))
        /\ result[Len(result)].end_time = FromInt(10)

\* C15 as amended: the two segments are the first sentence over [0.0, 5.0]
\* (its share of 80/13 s cut to the maximum of 5.0 s) and the second over
\* [5.3, 5.3 + 50/13]: both durations are within [1.2, 5.0] and the last
\* segment ends at 1189/130 s (about 9.146 s), before 10.0.
C15_ScenarioAEndsEarly ==
    ScenarioA =>
        result = << [text |-> <<"ko", "re", "ha", "te", "su", "to", "de", "su">>,
                     start_time |-> Zero, end_time |-> FromInt(5)],
                    [text |-> <<"tsugi", "no", "bun", "de", "su">>,
                     start_time |-> R(53, 10), end_time |-> R(1189, 130)] >>

\* scenario A was run and returned two segments
C15_Witness ==
    /\ ScenarioA
    /\ Len(result) = 2
    /\ RLt(result[2].end_time, total_duration)

ScenarioB == Returned("build_chunks") /\ accent_phrases = ScenarioBPhrases

\* C16 (scenario B): build_chunks on the four contiguous units o, ha, yo, u
\* spanning 0.0 to 1.0 seconds returns a single chunk with the text of the
\* four units, start_time 0.0 and end_time 1.0, although ha is a connective
\* particle: the chunk has fewer than 3 characters when ha is its last one.
C16_ScenarioB ==
    ScenarioB =>
        /\ Len(result) = 1
        /\ result[1].text = <<"o", "ha", "yo", "u">>
        /\ result[1].start_time = Zero
        /\ result[1].end_time = FromInt(1)
        /\ Len(result[1].moras) = 4

\* scenario B was run: four units were extracted and scanned, the last at 1.0 s
C16_Witness ==
    /\ ScenarioB
    /\ Len(mora_timings) = 4
    /\ mora_timings[4].end_time = FromInt(1)
    /\ i = 5
    /\ result # <<>>

\* the optimization pass was given two chunks, both shorter than
\* min_chunk_duration, whose texts together have at most 20 characters
ScenarioD ==
    /\ Returned("optimize")
    /\ Len(chunks) = 2
    /\ RLt(RSub(chunks[1].end_time, chunks[1].start_time), R(1, 2))
    /\ RLt(RSub(chunks[2].end_time, chunks[2].start_time), R(1, 2))
    /\ Len(chunks[1].text) + Len(chunks[2].text) <= 20

\* C17 (scenario D): given two consecutive chunks, each shorter than 0.5 s and
\* with a combined text length <= 20, the optimization pass returns a single
\* segment: the two texts concatenated, the first chunk's start_time, the
\* second chunk's end_time, and both unit lists concatenated.
C17_ScenarioD ==
    ScenarioD =>
        /\ Len(result) = 1
        /\ result[1].text = chunks[1].text \o chunks[2].text
        /\ result[1].start_time = chunks[1].start_time
        /\ result[1].end_time = chunks[2].end_time
        /\ result[1].moras = chunks[1].moras \o chunks[2].moras

\* two short chunks of 10 characters each were merged into one of 20
C17_Witness ==
    /\ ScenarioD
    /\ Len(chunks[1].text) = 10
    /\ Len(chunks[2].text) = 10
    /\ Len(result) = 1
    /\ Len(result[1].moras) = 2

\* C18: generate_subtitle_with_timing, for audio_duration > 0 and a script with
\* n >= 1 parts, returns one segment per part in script order, the segments
\* splitting the audio evenly: every segment has
\* 0 <= start_time < end_time <= audio_duration and consecutive segments are
\* contiguous.
C18_EvenSplit ==
    ( /\ Returned("subtitle_with_timing")
      /\ XLess(DZero, audio_duration)
      /\ PartsOf(script) # <<>> )
    => /\ Len(subtitle_segments) = Len(PartsOf(script))
       /\ \A k \in 1..Len(subtitle_segments) :
              /\ subtitle_segments[k].text = PartsOf(script)[k]
              /\ XLe(DZero, subtitle_segments[k].start_time)
              /\ XLess(subtitle_segments[k].start_time, subtitle_segments[k].end_time)
              /\ XLe(subtitle_segments[k].end_time, audio_duration)
       /\ \A k \in 1..(Len(subtitle_segments) - 1) :
              subtitle_segments[k].end_time = subtitle_segments[k + 1].start_time

\* the characters of t that are not newlines, in order
WithoutNewlines(t) == SelectSeq(t, LAMBDA c : c # "LF")

\* C19: format_text_with_line_breaks, for every text without newline
\* characters and every max_chars_per_line >= 1, returns lines of at most
\* max_chars_per_line characters each, and removing the inserted newlines
\* gives back the original text exactly.
C19_LineBreaks ==
    ( /\ Returned("line_breaks")
      /\ Places(long_text, "LF") = {}
      /\ max_chars_per_line >= 1 )
    => /\ \A k \in 1..Len(SplitOn(formatted, "LF")) :
              Len(SplitOn(formatted, "LF")[k]) <= max_chars_per_line
       /\ WithoutNewlines(formatted) = long_text

\* a text of five characters was broken into lines of two, two and one
C19_Witness ==
    /\ Returned("line_breaks")
    /\ Places(long_text, "LF") = {}
    /\ Len(long_text) = 5
    /\ max_chars_per_line = 2
    /\ Len(SplitOn(formatted, "LF")) = 3
    /\ Len(formatted) = 7

Extracted == call \in {"build_chunks", "build_chunks_from_text"} /\ pc # "start"

\* a length field of a record is a number > 0
Sounds(v) == v # None /\ v.n > 0

\* the units a phrase list gives rise to: every mora, and every pause with a
\* consonant or vowel length > 0
RECURSIVE EmittedUnits(_)
EmittedUnits(phrases) ==
    IF phrases = <<>> THEN 0
    ELSE Len(Head(phrases).moras)
         + (IF /\ Head(phrases).pause_mora # <<>>
               /\ \/ Sounds(Head(phrases).pause_mora[1].consonant_length)
                  \/ Sounds(Head(phrases).pause_mora[1].vowel_length)
            THEN 1 ELSE 0)
         + EmittedUnits(Tail(phrases))

\* C20: extract_timings emits units on one cumulative clock carried across
\* phrases: the first unit starts at 0.0, every later unit starts where the
\* previous emitted unit ends, each unit ends at
\* start_time + consonant_length + vowel_length, and a pause whose lengths are
\* both zero emits nothing and does not advance the clock.
C20_CumulativeClock ==
    Extracted =>
        /\ mora_timings # <<>> => mora_timings[1].start_time = Zero
        /\ \A k \in 2..Len(mora_timings) :
               mora_timings[k].start_time = mora_timings[k - 1].end_time
        /\ \A k \in 1..Len(mora_timings) :
               mora_timings[k].end_time =
                   RAdd(RAdd(mora_timings[k].start_time, mora_timings[k].consonant_length),
                        mora_timings[k].vowel_length)
        /\ Len(mora_timings) = EmittedUnits(accent_phrases)

\* a silent pause between two phrases was dropped, a sounding pause was
\* emitted, and the clock ran on across the phrases
C20_Witness ==
    /\ Extracted
    /\ Len(accent_phrases) >= 3
    /\ \E k \in 1..(Len(accent_phrases) - 1) :
           /\ accent_phrases[k].pause_mora = <<Mora(<<>>, None, None)>>
           /\ accent_phrases[k + 1].moras # <<>>
    /\ \E k \in 1..(Len(mora_timings) - 1) : mora_timings[k].text = <<>>
    /\ Len(mora_timings) >= 3
    /\ RLt(Zero, mora_timings[Len(mora_timings)].start_time)

\* chunk c is the merge of the adjacent chunks a and b
MergeOf(c, a, b) ==
    /\ c.text = a.text \o b.text
    /\ c.start_time = a.start_time
    /\ c.end_time = b.end_time
    /\ c.moras = a.moras \o b.moras

\* out[j..] is cs[k..] with some short chunks merged with their successor:
\* every chunk of out is one chunk of cs unchanged, or the merge of two
\* adjacent ones of which the first is shorter than 0.5s and both texts
\* together have at most 20 characters
RECURSIVE PairedFrom(_, _, _, _)
PairedFrom(cs, k, out, j) ==
    IF k > Len(cs) THEN j > Len(out)
    ELSE /\ j <= Len(out)
         /\ \/ out[j] = cs[k] /\ PairedFrom(cs, k + 1, out, j + 1)
            \/ /\ k + 1 <= Len(cs)
               /\ MergeOf(out[j], cs[k], cs[k + 1])
               /\ RLt(RSub(cs[k].end_time, cs[k].start_time), R(1, 2))
               /\ Len(cs[k].text) + Len(cs[k + 1].text) <= 20
               /\ PairedFrom(cs, k + 2, out, j + 1)

\* C21: the optimization pass is one forward scan without cascading: every
\* output chunk is one input chunk unchanged or the merge of exactly two
\* adjacent input chunks, a merge happens only when the first of the two is
\* shorter than 0.5s and the combined text has at most 20 characters, and
\* every input chunk is in exactly one output chunk, in the original order.
C21_SingleForwardPass ==
    ( /\ pc = "returned"
      /\ call \in {"build_chunks", "optimize"} )
    => PairedFrom(chunks, 1, result, 1)

\* the pass merged the first two of three short chunks and kept the third,
\* although the merged chunk is itself short and fits with the third
C21_Witness ==
    /\ Returned("optimize")
    /\ Len(chunks) = 3
    /\ Len(result) = 2
    /\ MergeOf(result[1], chunks[1], chunks[2])
    /\ result[2] = chunks[3]
    /\ RLt(RSub(result[1].end_time, result[1].start_time), R(1, 2))
    /\ Len(result[1].text) + Len(result[2].text) <= 20

\* the units that bear a text, in input order
IsTextUnit(m) == m.text # <<>>
TextUnits(ms) == SelectSeq(ms, IsTextUnit)

\* C22: build_chunks loses and reorders nothing: the texts of the returned
\* chunks, concatenated, are the texts of the text-bearing units in input
\* order, the unit lists of the chunks, concatenated, are exactly the sequence
\* of text-bearing units, no chunk has an empty unit list, and each chunk
\* starts with its first unit and ends with its last unit.
C22_NothingLost ==
    Returned("build_chunks") =>
        LET units == TextUnits(mora_timings)
        IN /\ Concat([k \in 1..Len(result) |-> result[k].text])
                  = Concat([k \in 1..Len(units) |-> units[k].text])
           /\ Concat([k \in 1..Len(result) |-> result[k].moras]) = units
           /\ \A k \in 1..Len(result) :
                  /\ result[k].moras # <<>>
                  /\ result[k].start_time = result[k].moras[1].start_time
                  /\ result[k].end_time
                         = result[k].moras[Len(result[k].moras)].end_time

\* build_chunks returned several chunks for units with a pause among them,
\* one of the chunks merged by the optimization pass
C22_Witness ==
    /\ Returned("build_chunks")
    /\ Len(result) >= 2
    /\ Len(result) < Len(chunks)
    /\ Len(TextUnits(mora_timings)) >= 3
    /\ Len(TextUnits(mora_timings)) < Len(mora_timings)
    /\ \E k \in 1..Len(result) :
           RLt(result[k].moras[1].end_time, result[k].end_time)

\* C23: every chunk returned by build_chunks, after the scan and the
\* optimization pass, has a text of at most 20 characters, provided no single
\* unit has a text of more than 20 characters.
C23_AtMostTwentyChars ==
    ( /\ Returned("build_chunks")
      /\ \A k \in 1..Len(mora_timings) : Len(mora_timings[k].text) <= 20 )
    => \A k \in 1..Len(result) : Len(result[k].text) <= 20

\* a returned chunk has exactly 20 characters and is shorter than 0.5s, and
\* was neither extended by the scan nor merged with the chunk after it
C23_Witness ==
    /\ Returned("build_chunks")
    /\ \E k \in 1..(Len(result) - 1) :
           /\ Len(result[k].text) = 20
           /\ Len(result[k].moras) >= 2
           /\ RLt(RSub(result[k].end_time, result[k].start_time), R(1, 2))
           /\ result[k + 1].text # <<>>

\* the chunk has several source units and spans more than 3.0 seconds
LongChunk(c) ==
    Len(c.moras) > 1 /\ RLt(FromInt(3), RSub(c.end_time, c.start_time))

\* C24 as claimed: every chunk returned by build_chunks, after the scan and
\* the optimization pass, that has more than one source unit spans at most
\* max_duration_per_chunk: end_time - start_time <= 3.0 seconds, for every
\* monotonic timing sequence, pause units between text units included.
C24_AtMostThreeSeconds ==
    ( /\ Returned("build_chunks")
      /\ NonNegativeLengths )
    => \A k \in 1..Len(result) : ~LongChunk(result[k])

\* C24 as amended: every chunk the scan proposes that has more than one source
\* unit spans at most 3.0 seconds, and a returned chunk with more than one
\* source unit that spans more than 3.0 seconds is the merge of two adjacent
\* proposed chunks made by the optimization pass.
C24_OnlyMergedExceedThreeSeconds ==
    ( /\ Returned("build_chunks")
      /\ NonNegativeLengths )
    => /\ \A k \in 1..Len(chunks) : ~LongChunk(chunks[k])
       /\ \A k \in 1..Len(result) :
              LongChunk(result[k])
                  => \E j \in 1..(Len(chunks) - 1) :
                         MergeOf(result[k], chunks[j], chunks[j + 1])

\* the scan proposed a chunk of two units that spans exactly 3.0 seconds, and
\* the optimization pass merged the short chunk before it into it: the
\* returned chunk spans more than 3.0 seconds
C24_Witness ==
    /\ Returned("build_chunks")
    /\ NonNegativeLengths
    /\ \E j \in 1..Len(chunks) :
           /\ Len(chunks[j].moras) = 2
           /\ RSub(chunks[j].end_time, chunks[j].start_time) = FromInt(3)
    /\ \E k \in 1..Len(result) : LongChunk(result[k])

\* the audio length, and the segments returned, as binary64 values
TotalDuration64 == DRatio(total_duration.n, total_duration.d)

\* the segment lies inside the audio
InsideAudio(s) ==
    /\ XLe(DZero, s.start_time)
    /\ XLess(s.start_time, TotalDuration64)
    /\ XLe(s.end_time, TotalDuration64)

\* C25 as claimed: for total_duration > 0, every segment returned by
\* generate_segments lies inside the audio (0 <= start_time < total_duration
\* and end_time <= total_duration), lasts at most 5.0s, and lasts at least 1.2s
\* unless its end_time equals total_duration.  The length of a segment is
\* taken exactly, on the binary64 values returned.
C25_DisplayTimeBounds ==
    Returned("generate_segments") =>
        \A k \in 1..Len(result64) :
            LET s == result64[k]
            IN /\ InsideAudio(s)
               /\ XLe(s.end_time, XAdd(s.start_time, XFromInt(5)))
               /\ \/ s.end_time = TotalDuration64
                  \/ XLe(XAdd(s.start_time, DRatio(12, 10)), s.end_time)

\* C25 as amended: every segment lies inside the audio, its end_time is at
\* most the float sum start_time + 5.0 and, unless its end_time equals
\* total_duration, at least the float sum start_time + 1.2: the segment lasts
\* between 1.2s and 5.0s up to the rounding of one float addition.
C25_DisplayTimeBoundsUpToRounding ==
    Returned("generate_segments") =>
        /\ Len(result64) = Len(result)
        /\ \A k \in 1..Len(result64) :
               LET s == result64[k]
               IN /\ InsideAudio(s)
                  /\ XLe(s.end_time, DAdd(s.start_time, XFromInt(5)))
                  /\ \/ s.end_time = TotalDuration64
                     \/ XLe(DAdd(s.start_time, DRatio(12, 10)), s.end_time)

\* a segment that does not reach the end of the audio was displayed for
\* max_display_time, and its end_time, the rounded sum, is more than 5.0s
\* after its start_time
C25_Witness ==
    /\ Returned("generate_segments")
    /\ \E k \in 1..Len(result64) :
           /\ XLess(result64[k].end_time, TotalDuration64)
           /\ result64[k].end_time = DAdd(result64[k].start_time, XFromInt(5))
           /\ XLess(XAdd(result64[k].start_time, XFromInt(5)), result64[k].end_time)

\* C26: in the output of generate_segments the first segment starts at 0.0 and
\* every later segment starts exactly min_subtitle_gap after the end of the
\* segment before it: segments[i+1].start_time = segments[i].end_time + 0.3,
\* as a float sum on the values returned, and exactly in exact arithmetic.
C26_GapBetweenSegments ==
    Returned("generate_segments") =>
        /\ result64 # <<>> => result64[1].start_time = DZero
        /\ result # <<>> => result[1].start_time = R(0, 1)
        /\ \A k \in 1..(Len(result64) - 1) :
               result64[k + 1].start_time = DAdd(result64[k].end_time, DRatio(3, 10))
        /\ \A k \in 1..(Len(result) - 1) :
               result[k + 1].start_time = RAdd(result[k].end_time, R(3, 10))

\* three segments were returned, the first two displayed for different times
C26_Witness ==
    /\ Returned("generate_segments")
    /\ Len(result64) = 3
    /\ XLess(DZero, result64[2].start_time)
    /\ result64[2].start_time = DAdd(result64[1].end_time, DRatio(3, 10))
    /\ RSub(result[1].end_time, result[1].start_time)
           # RSub(result[2].end_time, result[2].start_time)

\* C27: generate_segments emits a prefix of the split sentences in source
\* order: segment i has the text of sentence i, the first sentence is emitted
\* whenever there is a sentence, and sentence k+1 is emitted if and only if
\* the end_time of segment k plus 0.3 is strictly less than total_duration;
\* once the cursor has reached total_duration every remaining sentence is
\* dropped.  On the binary64 values and in exact arithmetic.
C27_PrefixOfSentences ==
    Returned("generate_segments") =>
        LET sentences == _split_into_sentences(text)
        IN /\ Len(result) <= Len(sentences)
           /\ Len(result64) = Len(result)
           /\ \A k \in 1..Len(result) :
                  /\ result[k].text = sentences[k]
                  /\ result64[k].text = sentences[k]
           /\ sentences # <<>> => result # <<>>
           /\ \A k \in 1..Len(result) :
                  k < Len(sentences) =>
                      /\ k < Len(result)
                             <=> RLt(RAdd(result[k].end_time, R(3, 10)), total_duration)
                      /\ k < Len(result64)
                             <=> XLess(DAdd(result64[k].end_time, DRatio(3, 10)),
                                       TotalDuration64)

\* of three sentences the first two were emitted and the third was dropped
C27_Witness ==
    /\ Returned("generate_segments")
    /\ Len(_split_into_sentences(text)) = 3
    /\ Len(result64) = 2
    /\ XLess(DAdd(result64[1].end_time, DRatio(3, 10)), TotalDuration64)
    /\ XLe(TotalDuration64, DAdd(result64[2].end_time, DRatio(3, 10)))

\* the fragments of a text: the pieces between terminators, without the
\* whitespace at their ends, the empty ones dropped
NonEmpty(p) == p # <<>>
Fragments(t) ==
    LET u == [k \in 1..Len(t) |-> IF t[k] \in Terminators THEN "kuten" ELSE t[k]]
        pieces == SplitOn(u, "kuten")
    IN SelectSeq([k \in 1..Len(pieces) |-> Strip(pieces[k])], NonEmpty)

\* the fragments that open a sentence: the first, and every one of 5 or more
\* characters; the n-th of them, and the last fragment of the n-th sentence
Openers(f) == {k \in 1..Len(f) : k = 1 \/ Len(f[k]) >= 5}
NthOpener(f, n) == CHOOSE k \in Openers(f) : Cardinality({h \in Openers(f) : h <= k}) = n
LastFragment(f, n) ==
    IF n = Cardinality(Openers(f)) THEN Len(f) ELSE NthOpener(f, n + 1) - 1

\* C28: the sentences _split_into_sentences returns are non-empty, contain no
\* terminator, are in source order, and all have at least 5 characters except
\* possibly the first; a fragment shorter than 5 characters that has a
\* predecessor is appended to the end of the previous sentence.
C28_SplitIntoSentences ==
    Returned("generate_segments") =>
        LET sentences == _split_into_sentences(text)
            f == Fragments(text)
        IN /\ Len(sentences) = Cardinality(Openers(f))
           /\ \A n \in 1..Len(sentences) :
                  /\ sentences[n] = Concat(SubSeq(f, NthOpener(f, n), LastFragment(f, n)))
                  /\ sentences[n] # <<>>
                  /\ \A k \in 1..Len(sentences[n]) : sentences[n][k] \notin Terminators
                  /\ n > 1 => Len(sentences[n]) >= 5

\* a short first fragment stayed a sentence of its own, and a short fragment
\* after a long one was appended to it
C28_Witness ==
    /\ Returned("generate_segments")
    /\ Len(Fragments(text)) = 4
    /\ Len(Fragments(text)[1]) < 5
    /\ Len(Fragments(text)[3]) >= 5
    /\ Len(Fragments(text)[4]) < 5
    /\ Len(_split_into_sentences(text)) = 3
    /\ Len(_split_into_sentences(text)[1]) < 5
    /\ _split_into_sentences(text)[3] = Fragments(text)[3] \o Fragments(text)[4]

\* C29: no chunk returned by build_chunks_from_text ends after the audio: for
\* every original text and every non-empty timing list, the end_time of every
\* chunk is at most the end_time of the last timing unit, the total duration
\* onto which the sentences are mapped.
C29_EndsWithinAudio ==
    ( /\ Returned("build_chunks_from_text")
      /\ mora_timings # <<>> )
    => \A k \in 1..Len(result) :
           RLe(result[k].end_time, mora_timings[Len(mora_timings)].end_time)

\* the file rendered was read back, with or without an error
ReadBack == call = "render" /\ pc \in {"file_parsed", "raised"}

\* the chunk list is sorted by start_time and has no empty text
SortedNonEmpty(cs) ==
    /\ \A k \in 1..Len(cs) : cs[k].text # <<>>
    /\ \A k \in 1..(Len(cs) - 1) : XLe(cs[k].start_time, cs[k + 1].start_time)

\* C30: serialization and the subtitle-file parser round-trip: for every chunk
\* list sorted by start_time whose texts are non-empty, writing it with
\* generate_ass_content and reading it back with parse_ass_subtitle_file
\* returns the same number of segments in the same order, each with the text
\* of the original chunk (backslash-N turned back into a newline).
C30_FileRoundTrip ==
    ( /\ ReadBack
      /\ SortedNonEmpty(subtitle_chunks) )
    => /\ pc = "file_parsed"
       /\ Len(file_segments.value) = Len(subtitle_chunks)
       /\ \A k \in 1..Len(subtitle_chunks) :
              file_segments.value[k].text = subtitle_chunks[k].text

====
